---------------------------- MODULE Spec2Model ----------------------------
(***************************************************************************)
(* Variable-name filtering and the hierarchy panel of libsurfer:           *)
(*   libsurfer/src/variable_filter.rs  (VariableFilter, the filter-edit    *)
(*                                      control, filtered_variables)       *)
(*   libsurfer/src/hierarchy.rs        (separate, draw_variables)          *)
(*                                                                         *)
(* Text (names, patterns) is a sequence of one-character strings.          *)
(***************************************************************************)
EXTENDS Integers, Sequences, FiniteSets, Bags, TLC

VARIABLES
    variable_filter,   \* SystemState.user.variable_filter
    waves,             \* SystemState.user.waves: [loaded, inner, active_scope]
    show_parameters,   \* value of SystemState::show_parameters_in_scopes()
    filter_focused,    \* target of Message::SetFilterFocused
    msgs,              \* the frame's outgoing Vec<Message>
    view,              \* what draw_variables put on screen in this frame
    input,             \* the interaction egui reported in this frame
    pc,                \* "filter_edit" | "variables" | "update" | "panicked"
    fpc,               \* pure-function harness: "input" | "matching" | "filtered"
    fFilter,           \* the VariableFilter handed to the function
    fVars,             \* the &[VariableRef] handed to the function
    fResult            \* the Vec<VariableRef> it returned

vars == <<variable_filter, waves, show_parameters, filter_focused, msgs, view,
          input, pc, fpc, fFilter, fVars, fResult>>

uiVars == <<variable_filter, waves, show_parameters, filter_focused, msgs, view,
            input, pc>>

fnVars == <<fpc, fFilter, fVars, fResult>>

(***************************************************************************)
(* Bounds                                                                  *)
(***************************************************************************)
\* longest pattern the pure-function harness enumerates
MaxPatLen == 2

\* longest pattern the text edit of the panel model can hold
MaxEditLen == 2

(***************************************************************************)
(* Characters                                                              *)
(***************************************************************************)
Range(s) == {s[i] : i \in DOMAIN s}

SeqToBag(s) == [x \in Range(s) |-> Cardinality({i \in DOMAIN s : s[i] = x})]

\* code points of the characters that occur in names
CharCode ==
    ("(" :> 40) @@ (")" :> 41) @@ ("*" :> 42) @@ ("." :> 46) @@
    ("0" :> 48) @@ ("1" :> 49) @@ ("2" :> 50) @@
    ("A" :> 65) @@ ("C" :> 67) @@ ("K" :> 75) @@ ("L" :> 76) @@ ("X" :> 88) @@
    ("\\" :> 92) @@ ("_" :> 95) @@
    ("a" :> 97) @@ ("b" :> 98) @@ ("c" :> 99) @@ ("e" :> 101) @@ ("g" :> 103) @@
    ("i" :> 105) @@ ("k" :> 107) @@ ("l" :> 108) @@ ("n" :> 110) @@ ("s" :> 115)

DigitVal == ("0" :> 0) @@ ("1" :> 1) @@ ("2" :> 2)

IsDigit(c) == c \in DOMAIN DigitVal

LowerOf == ("A" :> "a") @@ ("C" :> "c") @@ ("K" :> "k") @@ ("L" :> "l") @@ ("X" :> "x")

\* simple case folding of one character
Fold(c) == IF c \in DOMAIN LowerOf THEN LowerOf[c] ELSE c

\* a pattern character against a candidate character, under the case flag
CharEq(c, p, case_insensitive) ==
    IF case_insensitive THEN Fold(c) = Fold(p) ELSE c = p

IsLetter(c) ==
    c \in DOMAIN CharCode /\ (CharCode[c] \in 65..90 \/ CharCode[c] \in 97..122)

\* a word character of the regex engine (for \b and \B)
IsWordChar(c) == c = "_" \/ IsDigit(c) \/ IsLetter(c)

(***************************************************************************)
(* regex::escape and RegexBuilder, restricted to the syntax the patterns   *)
(* of this model can contain: literals, ".", "*", groups, "^" and          *)
(* backslash escapes.                                                      *)
(***************************************************************************)
\* regex_syntax::is_meta_character
MetaChars == {"\\", ".", "+", "*", "?", "(", ")", "|", "[", "]", "{", "}",
              "^", "$", "#", "&", "-", "~"}

RECURSIVE escape_from(_, _)
escape_from(text, i) ==
    IF i > Len(text) THEN <<>>
    ELSE (IF text[i] \in MetaChars THEN <<"\\", text[i]>> ELSE <<text[i]>>)
         \o escape_from(text, i + 1)

escape_identity(text) == text

\* regex::escape: every meta character gets a backslash in front
escape(text) == escape_from(text, 1)

Node(k, c, sub) == [k |-> k, c |-> c, sub |-> sub]

ParseErr == [ok |-> FALSE, node |-> Node("cat", "", <<>>), next |-> 0]

\* the atom a backslash escape stands for; "err" when the parser rejects it
EscapeAtom(d) ==
    IF d \in MetaChars THEN Node("lit", d, <<>>)
    ELSE IF d = "a" THEN Node("lit", "BEL", <<>>)
    ELSE IF d = "A" THEN Node("start", "", <<>>)
    ELSE IF d = "z" THEN Node("end", "", <<>>)
    ELSE IF d = "b" THEN Node("wordb", "", <<>>)
    ELSE IF d = "B" THEN Node("nwordb", "", <<>>)
    ELSE Node("err", "", <<>>)

RECURSIVE ParseSeq(_, _, _, _)
\* parse p from position i with the atoms of the open concatenation in acc,
\* depth groups being open
ParseSeq(p, i, acc, depth) ==
    IF i > Len(p)
    THEN IF depth = 0 THEN [ok |-> TRUE, node |-> Node("cat", "", acc), next |-> i]
         ELSE ParseErr                                   \* unclosed group
    ELSE LET c == p[i] IN
      CASE c = ")" ->
             IF depth = 0 THEN ParseErr                  \* unopened group
             ELSE [ok |-> TRUE, node |-> Node("cat", "", acc), next |-> i + 1]
        [] c = "(" ->
             LET g == ParseSeq(p, i + 1, <<>>, depth + 1) IN
             IF ~g.ok THEN ParseErr
             ELSE ParseSeq(p, g.next, Append(acc, g.node), depth)
        [] c = "*" ->
             IF acc = <<>> THEN ParseErr                 \* nothing to repeat
             ELSE ParseSeq(p, i + 1,
                           [acc EXCEPT ![Len(acc)] = Node("star", "", <<@>>)], depth)
        [] c = "." -> ParseSeq(p, i + 1, Append(acc, Node("any", "", <<>>)), depth)
        [] c = "^" -> ParseSeq(p, i + 1, Append(acc, Node("start", "", <<>>)), depth)
        [] c = "\\" ->
             IF i = Len(p) THEN ParseErr                 \* escape at end of pattern
             ELSE LET a == EscapeAtom(p[i + 1]) IN
                  IF a.k = "err" THEN ParseErr
                  ELSE ParseSeq(p, i + 2, Append(acc, a), depth)
        [] OTHER -> ParseSeq(p, i + 1, Append(acc, Node("lit", c, <<>>)), depth)

\* RegexBuilder::new(pattern).case_insensitive(ci).build()
RegexBuild(pattern, case_insensitive) ==
    LET r == ParseSeq(pattern, 1, <<>>, 0) IN
    [ok |-> r.ok, node |-> r.node, ci |-> case_insensitive]

WordAt(s, i) == i >= 1 /\ i <= Len(s) /\ IsWordChar(s[i])

RECURSIVE Ends(_, _, _, _)
RECURSIVE EndsCat(_, _, _, _, _)
RECURSIVE StarClose(_, _, _, _, _)

\* the positions j at which a match of node n that starts after position i
\* of s can end
Ends(n, s, i, ci) ==
    CASE n.k = "lit" ->
           IF i < Len(s) /\ CharEq(s[i + 1], n.c, ci) THEN {i + 1} ELSE {}
      [] n.k = "any" ->
           IF i < Len(s) /\ s[i + 1] # "\n" THEN {i + 1} ELSE {}
      [] n.k = "start" -> IF i = 0 THEN {i} ELSE {}
      [] n.k = "end" -> IF i = Len(s) THEN {i} ELSE {}
      [] n.k = "wordb" -> IF WordAt(s, i) # WordAt(s, i + 1) THEN {i} ELSE {}
      [] n.k = "nwordb" -> IF WordAt(s, i) = WordAt(s, i + 1) THEN {i} ELSE {}
      [] n.k = "cat" -> EndsCat(n.sub, 1, s, {i}, ci)
      [] n.k = "star" -> StarClose(n.sub[1], s, {i}, {i}, ci)

EndsCat(subs, k, s, from, ci) ==
    IF k > Len(subs) \/ from = {} THEN from
    ELSE EndsCat(subs, k + 1, s, UNION {Ends(subs[k], s, j, ci) : j \in from}, ci)

StarClose(n, s, frontier, seen, ci) ==
    LET new == UNION {Ends(n, s, j, ci) : j \in frontier} \ seen IN
    IF new = {} THEN seen ELSE StarClose(n, s, new, seen \cup new, ci)

\* Regex::is_match: an unanchored search
is_match(regex, text) ==
    \E i \in 0..Len(text) : Ends(regex.node, text, i, regex.ci) # {}

(***************************************************************************)
(* SkimMatcherV2::fuzzy_match(choice, pattern).is_some(): the pattern is a *)
(* subsequence of the choice                                               *)
(***************************************************************************)
RECURSIVE Subsequence(_, _, _, _, _)
Subsequence(choice, i, pattern, j, ci) ==
    IF j > Len(pattern) THEN TRUE
    ELSE IF i > Len(choice) THEN FALSE
    ELSE IF CharEq(choice[i], pattern[j], ci)
         THEN Subsequence(choice, i + 1, pattern, j + 1, ci)
         ELSE Subsequence(choice, i + 1, pattern, j, ci)

fuzzy_match(choice, pattern, ignore_case) ==
    Subsequence(choice, 1, pattern, 1, ignore_case)

(***************************************************************************)
(* numeric_sort::cmp: the names are cut into runs of digits and runs of    *)
(* other characters; runs are compared pairwise, digit runs by magnitude   *)
(* and other runs character by character. -1, 0, 1 stand for Less, Equal,  *)
(* Greater.                                                                *)
(***************************************************************************)
RECURSIVE RunEnd(_, _, _)
\* last index of the run of s that starts at i, of digits or of non-digits
RunEnd(s, i, digits) ==
    IF i < Len(s) /\ IsDigit(s[i + 1]) = digits THEN RunEnd(s, i + 1, digits) ELSE i

RECURSIVE DigitsValue(_)
DigitsValue(run) ==
    IF run = <<>> THEN 0
    ELSE 10 * DigitsValue(SubSeq(run, 1, Len(run) - 1)) + DigitVal[run[Len(run)]]

Sign(x, y) == IF x < y THEN -1 ELSE IF x > y THEN 1 ELSE 0

RECURSIVE LexCmp(_, _, _)
\* character-wise comparison of two texts from position i on
LexCmp(a, b, i) ==
    IF i > Len(a) /\ i > Len(b) THEN 0
    ELSE IF i > Len(a) THEN -1
    ELSE IF i > Len(b) THEN 1
    ELSE IF a[i] # b[i] THEN Sign(CharCode[a[i]], CharCode[b[i]])
    ELSE LexCmp(a, b, i + 1)

RECURSIVE cmp_from(_, _, _, _)
cmp_from(a, i, b, j) ==
    IF i > Len(a) /\ j > Len(b) THEN 0
    ELSE IF i > Len(a) THEN -1
    ELSE IF j > Len(b) THEN 1
    ELSE LET da == IsDigit(a[i])
             db == IsDigit(b[j])
             ea == RunEnd(a, i, da)
             eb == RunEnd(b, j, db)
             ra == SubSeq(a, i, ea)
             rb == SubSeq(b, j, eb)
             c  == IF da /\ db THEN Sign(DigitsValue(ra), DigitsValue(rb))
                   ELSE LexCmp(ra, rb, 1)
         IN IF c # 0 THEN c ELSE cmp_from(a, ea + 1, b, eb + 1)

\* numeric_sort::cmp(a, b)
numeric_sort_cmp(a, b) == cmp_from(a, 1, b, 1)

(***************************************************************************)
(* VariableFilter                                                          *)
(***************************************************************************)
VariableNameFilterType == {"Fuzzy", "Regex", "Start", "Contain"}

\* VariableFilter::new()
VariableFilter_new ==
    [name_filter_type |-> "Contain",
     name_filter_str |-> <<>>,
     name_filter_case_insensitive |-> TRUE]

RegexPredicate_fail_open(built, var_name) ==
    IF built.ok THEN is_match(built, var_name) ELSE TRUE

\* if let Ok(regex) = ...build() { |var_name| regex.is_match(var_name) }
\* else { |_var_name| false }
RegexPredicate(built, var_name) ==
    IF built.ok THEN is_match(built, var_name) ELSE FALSE

\* the match on name_filter_type of name_filter_fn
name_filter_match(filter, var_name) ==
    LET ci  == filter.name_filter_case_insensitive
        str == filter.name_filter_str
    IN CASE filter.name_filter_type = "Fuzzy" -> fuzzy_match(var_name, str, ci)
         [] filter.name_filter_type = "Regex" ->
              RegexPredicate(RegexBuild(str, ci), var_name)
         [] filter.name_filter_type = "Start" ->
              RegexPredicate(RegexBuild(<<"^">> \o escape(str), ci), var_name)
         [] filter.name_filter_type = "Contain" ->
              RegexPredicate(RegexBuild(escape(str), ci), var_name)

name_filter_fn_empty_rejects(filter, var_name) ==
    IF filter.name_filter_str = <<>> THEN FALSE
    ELSE name_filter_match(filter, var_name)

\* VariableFilter::name_filter_fn, applied to one name
name_filter_fn(filter, var_name) ==
    IF filter.name_filter_str = <<>> THEN TRUE
    ELSE name_filter_match(filter, var_name)

\* VariableFilter::matching_variables
matching_variables(filter, variables) ==
    SelectSeq(variables, LAMBDA vr : name_filter_fn(filter, vr.name))

InsertSorted_before_ties(sorted, v, k) ==
    LET first == {j \in DOMAIN sorted : numeric_sort_cmp(v.name, sorted[j].name) <= 0}
        at == IF first = {} THEN Len(sorted) + 1
              ELSE CHOOSE j \in first : \A m \in first : j <= m
    IN SubSeq(sorted, 1, at - 1) \o <<v>> \o SubSeq(sorted, at, Len(sorted))

RECURSIVE InsertSorted(_, _, _)
\* v goes after every element of the sorted list that is not greater than it
InsertSorted(sorted, v, k) ==
    IF k > Len(sorted) THEN Append(sorted, v)
    ELSE IF numeric_sort_cmp(v.name, sorted[k].name) < 0
         THEN SubSeq(sorted, 1, k - 1) \o <<v>> \o SubSeq(sorted, k, Len(sorted))
         ELSE InsertSorted(sorted, v, k + 1)

RECURSIVE SortFrom(_, _, _)
SortFrom(list, k, sorted) ==
    IF k > Len(list) THEN sorted
    ELSE SortFrom(list, k + 1, InsertSorted(sorted, list[k], 1))

\* Itertools::sorted_by(|a, b| numeric_sort::cmp(&a.name, &b.name)): a stable sort
sorted_by_name(list) == SortFrom(list, 1, <<>>)

filtered_variables_unsorted(variables, filter) ==
    matching_variables(filter, variables)

\* SystemState::filtered_variables
filtered_variables(variables, filter) ==
    sorted_by_name(matching_variables(filter, variables))

(***************************************************************************)
(* Inputs of the pure-function harness                                     *)
(***************************************************************************)
VariableRef(name, id) == [name |-> name, id |-> id]

\* characters of the enumerated patterns
PatAlphabet == {"a", "K", ".", "*", "(", ")", "\\"}

ExamplePatterns ==
    { <<"a", ".", "b", "*">>, <<"C", "L", "K">>, <<"s", "i", "g", "1">> }

Patterns ==
    UNION {[1..n -> PatAlphabet] : n \in 0..MaxPatLen} \cup ExamplePatterns

VarLists ==
    { <<>>,
      << VariableRef(<<"s", "i", "g", "1", "0">>, 1),
         VariableRef(<<"s", "i", "g", "2">>, 2),
         VariableRef(<<"s", "i", "g", "1">>, 3) >>,
      << VariableRef(<<"K", "a", ".", "b", "*">>, 1),
         VariableRef(<<"a", "X", "b", "*">>, 2),
         VariableRef(<<"a", "a", "a", "b">>, 3),
         VariableRef(<<"a", ".", "b", "*", "2">>, 4) >>,
      << VariableRef(<<"c", "l", "k", "_", "e", "n">>, 1),
         VariableRef(<<"C", "L", "K">>, 2),
         VariableRef(<<"a", "c", "l", "k">>, 3) >>,
      << VariableRef(<<"k", "a">>, 1),
         VariableRef(<<"a">>, 2),
         VariableRef(<<"A", "k", "2">>, 3),
         VariableRef(<<"K">>, 4) >>,
      << VariableRef(<<"a", "(", ")">>, 1),
         VariableRef(<<"a", "*">>, 2),
         VariableRef(<<".", "a">>, 3),
         VariableRef(<<"\\", "a", ".">>, 4) >>,
      << VariableRef(<<"k", "1">>, 1),
         VariableRef(<<"a", "2">>, 2),
         VariableRef(<<"k", "1">>, 3) >>,
      << VariableRef(<<"a", "K">>, 1),
         VariableRef(<<"a", "K">>, 1),
         VariableRef(<<"(", "a">>, 2) >> }

\* the panel at rest, for the behaviours of the pure-function harness
PanelIdle ==
    /\ variable_filter = VariableFilter_new
    /\ waves = [loaded |-> FALSE, inner |-> "", active_scope |->
                   [kind |-> "None", variant |-> "", id |-> 0]]
    /\ show_parameters = FALSE
    /\ filter_focused = FALSE
    /\ msgs = <<>>
    /\ view = <<>>
    /\ input = [click |-> "none", ftype |-> "", text |-> "none", ch |-> "",
                focus |-> "none"]
    /\ pc = "filter_edit"

InitFn ==
    /\ PanelIdle
    /\ fpc = "input"
    /\ fFilter \in [name_filter_type : VariableNameFilterType,
                    name_filter_str : Patterns,
                    name_filter_case_insensitive : BOOLEAN]
    /\ fVars \in VarLists
    /\ fResult = <<>>

\* a caller runs filter.matching_variables(&variables)
CallMatchingVariables ==
    /\ fpc = "input"
    /\ fResult' = matching_variables(fFilter, fVars)
    /\ fpc' = "matching"
    /\ UNCHANGED <<fFilter, fVars>>
    /\ UNCHANGED uiVars

\* a caller runs state.filtered_variables(&variables, &filter)
CallFilteredVariables ==
    /\ fpc = "input"
    /\ fResult' = filtered_variables(fVars, fFilter)
    /\ fpc' = "filtered"
    /\ UNCHANGED <<fFilter, fVars>>
    /\ UNCHANGED uiVars

NextFn == CallMatchingVariables \/ CallFilteredVariables

SpecFn == InitFn /\ [][NextFn]_vars

(***************************************************************************)
(* Properties of the filter functions (checked under SpecFn)               *)
(***************************************************************************)
\* pattern occurs literally in name right after position off
LiteralAt(name, pattern, off, case_insensitive) ==
    /\ off + Len(pattern) <= Len(name)
    /\ \A j \in 1..Len(pattern) : CharEq(name[off + j], pattern[j], case_insensitive)

Accepted(filter, variables) ==
    SelectSeq(variables, LAMBDA vr : name_filter_fn(filter, vr.name))

SeqPermutations(s) ==
    IF s = <<>> THEN {<<>>}
    ELSE {[i \in DOMAIN s |-> s[f[i]]] : f \in Permutations(DOMAIN s)}

Tie(v, w) == numeric_sort_cmp(v.name, w.name) = 0

\* C1: with an empty name_filter_str, whatever the type and the case flag,
\* matching_variables returns every element of its input with its multiplicity.
C1_EmptyPatternKeepsAll ==
    (fpc = "matching" /\ fFilter.name_filter_str = <<>>)
        => SeqToBag(fResult) = SeqToBag(fVars)

C1_Witness ==
    /\ fpc = "matching"
    /\ fFilter.name_filter_str = <<>>
    /\ fFilter.name_filter_type = "Regex"
    /\ ~fFilter.name_filter_case_insensitive
    /\ Len(fVars) = 3
    /\ fVars[1] = fVars[2]
    /\ Len(fResult) = 3

\* C2: for a non-empty pattern, Contain accepts a name exactly when the pattern
\* occurs in it as a literal substring and Start exactly when the name begins
\* with the literal pattern; letter case is ignored exactly when
\* name_filter_case_insensitive is set.
C2_LiteralMatch ==
    (/\ fpc = "matching"
     /\ fFilter.name_filter_str # <<>>
     /\ fFilter.name_filter_type \in {"Contain", "Start"})
        => \A i \in DOMAIN fVars :
             LET name == fVars[i].name
                 pat  == fFilter.name_filter_str
                 ci   == fFilter.name_filter_case_insensitive
             IN (fVars[i] \in Range(fResult)) <=>
                  IF fFilter.name_filter_type = "Contain"
                  THEN \E off \in 0..Len(name) : LiteralAt(name, pat, off, ci)
                  ELSE LiteralAt(name, pat, 0, ci)

C2_Witness ==
    /\ fpc = "matching"
    /\ fFilter.name_filter_type = "Contain"
    /\ fFilter.name_filter_str = <<"a", ".", "b", "*">>
    /\ Len(fVars) = 4
    /\ fVars[2].name = <<"a", "X", "b", "*">>
    /\ fVars[3].name = <<"a", "a", "a", "b">>
    /\ Len(fResult) = 2
    /\ fResult[1].name = <<"K", "a", ".", "b", "*">>
    /\ fResult[2].name = <<"a", ".", "b", "*", "2">>

\* C3: with type Regex and a non-empty pattern that does not compile, both
\* matching_variables and filtered_variables return the empty list.
C3_BadRegexMatchesNothing ==
    (/\ fpc \in {"matching", "filtered"}
     /\ fFilter.name_filter_type = "Regex"
     /\ fFilter.name_filter_str # <<>>
     /\ ~RegexBuild(fFilter.name_filter_str,
                    fFilter.name_filter_case_insensitive).ok)
        => fResult = <<>>

C3_Witness ==
    /\ fpc = "filtered"
    /\ fFilter.name_filter_type = "Regex"
    /\ fFilter.name_filter_str = <<"(">>
    /\ Len(fVars) = 4
    /\ fResult = <<>>

\* C4: filtered_variables returns exactly the accepted variables, each adjacent
\* pair of the output in order under the numeric-aware comparator; the names
\* sig10, sig2, sig1 under an empty filter come out as sig1, sig2, sig10.
C4_FilteredSorted ==
    (fpc = "filtered")
        => /\ SeqToBag(fResult) = SeqToBag(Accepted(fFilter, fVars))
           /\ \A i \in 1..(Len(fResult) - 1) :
                numeric_sort_cmp(fResult[i].name, fResult[i + 1].name) <= 0
           /\ (/\ fFilter.name_filter_str = <<>>
               /\ Len(fVars) = 3
               /\ fVars[1].name = <<"s", "i", "g", "1", "0">>
               /\ fVars[2].name = <<"s", "i", "g", "2">>
               /\ fVars[3].name = <<"s", "i", "g", "1">>)
                 => fResult = <<fVars[3], fVars[2], fVars[1]>>

C4_Witness ==
    /\ fpc = "filtered"
    /\ fFilter.name_filter_str = <<>>
    /\ Len(fVars) = 3
    /\ fVars[1].name = <<"s", "i", "g", "1", "0">>
    /\ Len(fResult) = 3
    /\ fResult[1].name = <<"s", "i", "g", "1">>
    /\ fResult[2].name = <<"s", "i", "g", "2">>
    /\ fResult[3].name = <<"s", "i", "g", "1", "0">>

\* C5 as claimed: the output of filtered_variables is the same sequence for
\* every permutation of its input.
C5_OrderIndependent ==
    (fpc = "filtered")
        => \A p \in SeqPermutations(fVars) : filtered_variables(p, fFilter) = fResult

\* C5 as amended: for every permutation of the input the output holds the same
\* variables and at each position a name that ties with the one at that
\* position; variables whose names tie keep the order of the input, and the
\* outputs are the same sequence when no two different input variables tie.
C5_OrderIndependentUpToTies ==
    (fpc = "filtered")
        => /\ \A p \in SeqPermutations(fVars) :
                LET o == filtered_variables(p, fFilter) IN
                /\ SeqToBag(o) = SeqToBag(fResult)
                /\ \A i \in DOMAIN o : Tie(o[i], fResult[i])
                /\ (\A i, j \in DOMAIN fVars :
                        Tie(fVars[i], fVars[j]) => fVars[i] = fVars[j])
                     => o = fResult
           /\ \A k \in DOMAIN fResult :
                SelectSeq(fResult, LAMBDA v : Tie(v, fResult[k]))
                  = SelectSeq(Accepted(fFilter, fVars), LAMBDA v : Tie(v, fResult[k]))

C5_Witness ==
    /\ fpc = "filtered"
    /\ fFilter.name_filter_str = <<>>
    /\ Len(fVars) = 3
    /\ fVars[1] # fVars[3]
    /\ Tie(fVars[1], fVars[3])
    /\ fResult = <<fVars[2], fVars[1], fVars[3]>>

(***************************************************************************)
(* The loaded data container (read only)                                   *)
(***************************************************************************)
NoScope == [kind |-> "None", variant |-> "", id |-> 0]
WaveScope(id) == [kind |-> "WaveScope", variant |-> "", id |-> id]
StreamScope(variant, id) == [kind |-> "StreamScope", variant |-> variant, id |-> id]

\* ScopeRef::empty()
EmptyScopeRef == 0

NoWaves == [loaded |-> FALSE, inner |-> "", active_scope |-> NoScope]

\* WaveContainer::variables_in_scope
variables_in_scope(scope) ==
    CASE scope = 1 ->
           << VariableRef(<<"s", "i", "g", "1", "0">>, 1),
              VariableRef(<<"s", "i", "g", "2">>, 2),
              VariableRef(<<"a", "(", "1">>, 3) >>
      [] scope = 2 ->
           << VariableRef(<<"k", "a">>, 4),
              VariableRef(<<"A", "2">>, 5),
              VariableRef(<<"a", "1">>, 6) >>
      [] OTHER -> <<>>

\* WaveContainer::parameters_in_scope
parameters_in_scope(scope) ==
    CASE scope = 2 ->
           << VariableRef(<<"K", "2">>, 7),
              VariableRef(<<"a", "1", "0">>, 8) >>
      [] OTHER -> <<>>

Stream(id, name, generators) == [id |-> id, name |-> name, generators |-> generators]
Generator(stream_id, id, name) == [stream_id |-> stream_id, id |-> id, name |-> name]

\* TransactionContainer::get_streams
get_streams ==
    << Stream(1, <<"s", "1">>, <<13, 11, 12>>), Stream(2, <<"s", "2">>, <<>>) >>

\* TransactionContainer::get_stream
get_stream(id) == get_streams[id]

\* TransactionContainer::get_generator
get_generator(gen_id) ==
    CASE gen_id = 11 -> Generator(1, 11, <<"g", "1">>)
      [] gen_id = 12 -> Generator(1, 12, <<"g", "2">>)
      [] gen_id = 13 -> Generator(1, 13, <<"g", "1", "0">>)

(***************************************************************************)
(* Messages                                                                *)
(***************************************************************************)
NoRef == [stream_id |-> 0, gen_id |-> 0, name |-> <<>>]

Message(kind, vars_, ref, flag, ftype) ==
    [kind |-> kind, vars |-> vars_, ref |-> ref, flag |-> flag, ftype |-> ftype]

AddVariables(list) == Message("AddVariables", list, NoRef, FALSE, "")
\* TransactionStreamRef::new_stream
AddStream(stream) ==
    Message("AddStreamOrGenerator", <<>>,
            [stream_id |-> stream.id, gen_id |-> 0, name |-> stream.name], FALSE, "")
\* TransactionStreamRef::new_gen
AddGenerator(gen) ==
    Message("AddStreamOrGenerator", <<>>,
            [stream_id |-> gen.stream_id, gen_id |-> gen.id, name |-> gen.name], FALSE, "")
SetVariableNameFilterCaseInsensitive(b) ==
    Message("SetVariableNameFilterCaseInsensitive", <<>>, NoRef, b, "")
SetVariableNameFilterType(t) == Message("SetVariableNameFilterType", <<>>, NoRef, FALSE, t)
SetFilterFocused(b) == Message("SetFilterFocused", <<>>, NoRef, b, "")

(***************************************************************************)
(* draw_variable_name_filter_edit                                          *)
(***************************************************************************)
\* characters the text edit can receive
EditChars == {"a", "("}

NoInput == [click |-> "none", ftype |-> "", text |-> "none", ch |-> "", focus |-> "none"]

\* what egui can report for the controls in one frame: one click or one text
\* edit at most, and a focus change of the text edit
Inputs ==
    { i \in [click : {"none", "add", "case", "type", "clear"},
             ftype : VariableNameFilterType \cup {""},
             text : {"none", "insert", "delete"},
             ch : EditChars \cup {""},
             focus : {"none", "gained", "lost"}] :
        /\ (i.click = "type") <=> (i.ftype # "")
        /\ (i.text = "insert") <=> (i.ch # "")
        /\ i.click # "none" => i.text = "none"
        /\ i.text # "none" => i.focus = "none" }

AddAllWaveScope_unsorted(scope, filter) ==
    <<AddVariables(matching_variables(filter, variables_in_scope(scope)))>>

\* the ScopeType::WaveScope arm of the add-all closure
AddAllWaveScope(scope, filter) ==
    <<AddVariables(filtered_variables(variables_in_scope(scope), filter))>>

RECURSIVE AddAllGenerators(_, _)
AddAllGenerators(generators, k) ==
    IF k > Len(generators) THEN <<>>
    ELSE <<AddGenerator(get_generator(generators[k]))>>
         \o AddAllGenerators(generators, k + 1)

AddAllStreamScope_reversed(scope) ==
    LET gens == get_stream(scope.id).generators IN
    IF scope.variant = "Stream"
    THEN [k \in 1..Len(gens) |-> AddGenerator(get_generator(gens[Len(gens) + 1 - k]))]
    ELSE <<>>

\* the match on StreamScopeRef of the add-all closure
AddAllStreamScope(scope) ==
    CASE scope.variant = "Root" ->
           [k \in 1..Len(get_streams) |-> AddStream(get_streams[k])]
      [] scope.variant = "Stream" ->
           AddAllGenerators(get_stream(scope.id).generators, 1)
      [] scope.variant = "Empty" -> <<>>

\* the add-all closure: [panic, msgs]
AddAll(w, filter) ==
    IF ~w.loaded \/ w.active_scope.kind = "None"
    THEN [panic |-> FALSE, msgs |-> <<>>]
    ELSE IF w.active_scope.kind = "WaveScope"
    THEN IF w.inner # "Waves"
         THEN [panic |-> TRUE, msgs |-> <<>>]            \* as_waves().unwrap()
         ELSE [panic |-> FALSE, msgs |-> AddAllWaveScope(w.active_scope.id, filter)]
    ELSE IF w.inner # "Transactions"
         THEN [panic |-> FALSE, msgs |-> <<>>]           \* let ... else { return; }
         ELSE [panic |-> FALSE, msgs |-> AddAllStreamScope(w.active_scope)]

EditedText(str, i) ==
    CASE i.click = "clear" -> <<>>
      [] i.text = "insert" -> Append(str, i.ch)
      [] i.text = "delete" -> SubSeq(str, 1, Len(str) - 1)
      [] OTHER -> str

FilterAfterEdit_case_in_place(filter, i) ==
    [filter EXCEPT !.name_filter_str = EditedText(@, i),
                   !.name_filter_case_insensitive = IF i.click = "case" THEN ~@ ELSE @]

\* the clear button and the TextEdit write name_filter_str in place
FilterAfterEdit(filter, i) ==
    [filter EXCEPT !.name_filter_str = EditedText(@, i)]

ClickMsgs(filter, i) ==
    CASE i.click = "case" ->
           <<SetVariableNameFilterCaseInsensitive(~filter.name_filter_case_insensitive)>>
      [] i.click = "type" -> <<SetVariableNameFilterType(i.ftype)>>
      [] OTHER -> <<>>

FocusMsgs(i) ==
    CASE i.focus = "gained" -> <<SetFilterFocused(TRUE)>>
      [] i.focus = "lost" -> <<SetFilterFocused(FALSE)>>
      [] OTHER -> <<>>

DrawVariableNameFilterEdit ==
    /\ pc = "filter_edit"
    /\ \E i \in Inputs :
         /\ i.click = "clear" => variable_filter.name_filter_str # <<>>
         /\ i.text = "insert" =>
              filter_focused /\ Len(variable_filter.name_filter_str) < MaxEditLen
         /\ i.text = "delete" => filter_focused /\ variable_filter.name_filter_str # <<>>
         /\ i.focus = "gained" => ~filter_focused
         /\ i.focus = "lost" => filter_focused
         /\ input' = i
         /\ LET added == IF i.click = "add" THEN AddAll(waves, variable_filter)
                         ELSE [panic |-> FALSE, msgs |-> <<>>]
            IN IF added.panic
               THEN /\ pc' = "panicked"
                    /\ UNCHANGED <<variable_filter, msgs>>
               ELSE /\ pc' = "variables"
                    /\ msgs' = msgs \o added.msgs \o ClickMsgs(variable_filter, i)
                                    \o FocusMsgs(i)
                    /\ variable_filter' = FilterAfterEdit(variable_filter, i)
    /\ UNCHANGED <<waves, show_parameters, filter_focused, view>>
    /\ UNCHANGED fnVars

(***************************************************************************)
(* draw_variables                                                          *)
(***************************************************************************)
\* the variables region is a column of sections, top first
NothingDrawn == <<>>

Section(title, rows) == [title |-> title, rows |-> rows]

\* SystemState::draw_variable_list: the rows of the Parameters section
draw_variable_list(all_variables, filter) == all_variables

\* SystemState::draw_filtered_variable_list: one row per variable handed over
draw_filtered_variable_list(variables) == variables

WaveScopeView_section_always(scope, filter, show_parameters_in_scopes) ==
    << Section("Parameters", draw_variable_list(parameters_in_scope(scope), filter)),
       Section("", draw_filtered_variable_list(
                       filtered_variables(variables_in_scope(scope), filter))) >>

\* the ScopeType::WaveScope arm of draw_variables
WaveScopeView(scope, filter, show_parameters_in_scopes) ==
    LET variables == filtered_variables(variables_in_scope(scope), filter)
        parameters == parameters_in_scope(scope)
    IN IF ~show_parameters_in_scopes /\ parameters # <<>>
       THEN << Section("Parameters", draw_variable_list(parameters, filter)),
               Section("", draw_filtered_variable_list(variables)) >>
       ELSE << Section("", draw_filtered_variable_list(variables)) >>

\* SystemState::draw_transaction_variable_list: [panic, view]
draw_transaction_variable_list(w, s) ==
    IF w.inner # "Transactions"
    THEN [panic |-> TRUE, view |-> NothingDrawn]
    ELSE [panic |-> FALSE,
          view |-> << Section("",
                      CASE s.variant = "Root" ->
                             [k \in 1..Len(get_streams) |-> get_streams[k].name]
                        [] s.variant = "Stream" ->
                             [k \in 1..Len(get_stream(s.id).generators) |->
                                get_generator(get_stream(s.id).generators[k]).name]
                        [] OTHER -> <<>>) >>]

\* the scope draw_variables resolves: the active scope, or the empty scope of
\* the container's kind
ResolvedScope(w) ==
    IF w.active_scope.kind # "None" THEN w.active_scope
    ELSE IF w.inner = "Waves" THEN WaveScope(EmptyScopeRef)
    ELSE StreamScope("Empty", 0)

DrawVariables ==
    /\ pc = "variables"
    /\ IF ~waves.loaded
       THEN /\ view' = NothingDrawn
            /\ pc' = "update"
       ELSE LET active_scope == ResolvedScope(waves) IN
            IF active_scope.kind = "WaveScope"
            THEN IF waves.inner # "Waves"
                 THEN /\ pc' = "panicked"                \* as_waves().unwrap()
                      /\ UNCHANGED view
                 ELSE /\ view' = WaveScopeView(active_scope.id, variable_filter,
                                               show_parameters)
                      /\ pc' = "update"
            ELSE LET drawn == draw_transaction_variable_list(waves, active_scope) IN
                 IF drawn.panic
                 THEN /\ pc' = "panicked"
                      /\ UNCHANGED view
                 ELSE /\ view' = drawn.view
                      /\ pc' = "update"
    /\ UNCHANGED <<variable_filter, waves, show_parameters, filter_focused, msgs, input>>
    /\ UNCHANGED fnVars

(***************************************************************************)
(* The application loop applies the frame's messages before the next frame *)
(***************************************************************************)
RECURSIVE ApplyMessages(_, _, _)
ApplyMessages(st, queue, k) ==
    IF k > Len(queue) THEN st
    ELSE LET m == queue[k]
             next ==
               CASE m.kind = "SetVariableNameFilterType" ->
                      [st EXCEPT !.filter.name_filter_type = m.ftype]
                 [] m.kind = "SetVariableNameFilterCaseInsensitive" ->
                      [st EXCEPT !.filter.name_filter_case_insensitive = m.flag]
                 [] m.kind = "SetFilterFocused" -> [st EXCEPT !.focused = m.flag]
                 [] OTHER -> st
         IN ApplyMessages(next, queue, k + 1)

Update ==
    /\ pc = "update"
    /\ LET st == ApplyMessages([filter |-> variable_filter, focused |-> filter_focused],
                               msgs, 1)
       IN /\ variable_filter' = st.filter
          /\ filter_focused' = st.focused
    /\ msgs' = <<>>
    /\ view' = NothingDrawn
    /\ input' = NoInput
    /\ pc' = "filter_edit"
    /\ UNCHANGED <<waves, show_parameters>>
    /\ UNCHANGED fnVars

(***************************************************************************)
(* The panel                                                               *)
(***************************************************************************)
ActiveScopes ==
    {NoScope, WaveScope(1), WaveScope(2),
     StreamScope("Root", 0), StreamScope("Stream", 1), StreamScope("Stream", 2),
     StreamScope("Empty", 0)}

\* the session: no container, or a container of either kind with an active
\* scope of either kind (the handlers branch on every pairing)
Sessions ==
    {NoWaves} \cup [loaded : {TRUE}, inner : {"Waves", "Transactions"},
                    active_scope : ActiveScopes]

HarnessIdle ==
    /\ fpc = "unused"
    /\ fFilter = VariableFilter_new
    /\ fVars = <<>>
    /\ fResult = <<>>

Init ==
    /\ variable_filter = VariableFilter_new
    /\ waves \in Sessions
    /\ show_parameters \in BOOLEAN
    /\ filter_focused = FALSE
    /\ msgs = <<>>
    /\ view = NothingDrawn
    /\ input = NoInput
    /\ pc = "filter_edit"
    /\ HarnessIdle

Next == DrawVariableNameFilterEdit \/ DrawVariables \/ Update

Spec == Init /\ [][Next]_vars

(***************************************************************************)
(* Properties of the panel (checked under Spec)                            *)
(***************************************************************************)
Mismatch ==
    waves.loaded /\ waves.inner = "Waves" /\ waves.active_scope.kind = "StreamScope"

\* the list of variables at the bottom of the variables region
MainList == view[Len(view)].rows

Sorted(list) ==
    \A i \in 1..(Len(list) - 1) : numeric_sort_cmp(list[i].name, list[i + 1].name) <= 0

C7_MismatchFailsFast ==
    Mismatch =>
        /\ (pc = "variables" => input.click # "add")
        /\ pc # "update"

\* C8: add-all on StreamScope Stream(id) of a transactions container pushes one
\* AddStreamOrGenerator per generator of the stream, in the order of the
\* stream's generator list; the only other message of the frame is the focus
\* notification of the text edit.
C8_AddAllGenerators ==
    (/\ pc \in {"variables", "update"}
     /\ input.click = "add"
     /\ waves.loaded
     /\ waves.inner = "Transactions"
     /\ waves.active_scope.kind = "StreamScope"
     /\ waves.active_scope.variant = "Stream")
        => LET gens == get_stream(waves.active_scope.id).generators
               n == Len(gens)
           IN /\ Len(msgs) = n + Len(FocusMsgs(input))
              /\ \A k \in 1..n :
                   /\ msgs[k].kind = "AddStreamOrGenerator"
                   /\ msgs[k].ref = [stream_id |-> waves.active_scope.id,
                                     gen_id |-> gens[k],
                                     name |-> get_generator(gens[k]).name]
              /\ SubSeq(msgs, n + 1, Len(msgs)) = FocusMsgs(input)

C8_Witness ==
    /\ pc = "update"
    /\ input.click = "add"
    /\ waves.inner = "Transactions"
    /\ waves.active_scope = StreamScope("Stream", 1)
    /\ Len(msgs) = 3
    /\ msgs[1].ref.gen_id = 13
    /\ msgs[2].ref.gen_id = 11
    /\ msgs[3].ref.gen_id = 12

\* C9: add-all on a WaveScope pushes one AddVariables whose payload is the
\* accepted variables of the active scope in comparator order, the same list
\* the panel shows as its main variable list in that redraw.
C9_AddAllEqualsMainList ==
    (/\ pc = "update"
     /\ input.click = "add"
     /\ waves.loaded
     /\ waves.active_scope.kind = "WaveScope")
        => /\ msgs = <<AddVariables(MainList)>> \o FocusMsgs(input)
           /\ SeqToBag(msgs[1].vars)
                = SeqToBag(Accepted(variable_filter,
                                    variables_in_scope(waves.active_scope.id)))
           /\ Sorted(msgs[1].vars)

C9_Witness ==
    /\ pc = "update"
    /\ input.click = "add"
    /\ waves.active_scope = WaveScope(2)
    /\ variable_filter.name_filter_str = <<"a">>
    /\ Len(msgs) = 1
    /\ Len(msgs[1].vars) = 3
    /\ msgs[1].vars[1].name = <<"A", "2">>
    /\ msgs[1].vars = MainList

=============================================================================
